---- MODULE Spec2Model ----
(***************************************************************************)
(* Model of scripts/create_icon.py: the parent script draws one PNG per    *)
(* size in a blocking child interpreter, copies five of them to their @2x  *)
(* names with cp, converts the iconset with iconutil and prints a status.  *)
(* Lengths are in thousandths of a pixel.                                  *)
(***************************************************************************)
EXTENDS Integers, Sequences, FiniteSets, TLC

VARIABLES pc, i, j, files, written, log, out, result, exitCode, ctx

vars == <<pc, i, j, files, written, log, out, result, exitCode, ctx>>

(* ---- bounds -------------------------------------------------------------- *)
\* at most this many files are in the iconset directory before the run
MaxPre == 2
\* largest size handed to the drawing program in SpecDraw
MaxSize == 1024

(* ---- program constants --------------------------------------------------- *)
sizes == <<16, 32, 64, 128, 256, 512, 1024>>
copySizes == <<16, 32, 128, 256, 512>>

SizeSet == {sizes[k] : k \in DOMAIN sizes}
CopySet == {copySizes[k] : k \in DOMAIN copySizes}

(* ---- paths and file contents --------------------------------------------- *)
\* f"{iconset_dir}/icon_{size}x{size}.png"
PngPath(size) == [size |-> size, scale |-> 1]
\* f"{iconset_dir}/icon_{size*2}x{size*2}.png"
CopySrc(size) == PngPath(size * 2)
\* f"{iconset_dir}/icon_{size}x{size}@2x.png"
CopyDst(size) == [size |-> size, scale |-> 2]
\* "/tmp/Term.icns"
IcnsPath == [size |-> 0, scale |-> 0]
NoPath == [size |-> -1, scale |-> 0]

Paths == {PngPath(s) : s \in SizeSet} \cup {CopyDst(s) : s \in CopySet} \cup {IcnsPath}

\* content of a path: 0 = no such file, -1 = bytes left by an earlier run,
\* s > 0 = the bytes of the picture drawn at size s by this run
Absent == 0
Stale == -1
\* bytes of the container written by iconutil in this run
IcnsBytes == 1

\* os.path.exists
Exists(p) == files[p] # Absent

(* ---- exit statuses and console lines ------------------------------------- *)
\* returncode of a child that has not exited yet
Pending == -1
ExitCodes == {0, 1}
StderrTexts == {"", "iconutil: failed"}
NoResult == [returncode |-> Pending, stderr |-> ""]

Line(t, p, s) == [t |-> t, p |-> p, s |-> s]
CreatedLine(p) == Line("Created", p, "")
BannerLine == Line("Icon created", IcnsPath, "")
HintLine == Line("To install", IcnsPath, "")
ErrorLine(s) == Line("Error", NoPath, s)

Invocation(kind, arg, rc) == [kind |-> kind, arg |-> arg, rc |-> rc]

\* the last invocation of the log with its return code filled in
Exited(rc) == [log EXCEPT ![Len(log)].rc = rc]

(* ---- the inline drawing program (thousandths of a pixel) ----------------- *)
Max(a, b) == IF a >= b THEN a ELSE b

\* size * ratio, the ratio given in thousandths
Scaled(size, permille) == size * permille

\* the border stroke without its lower clamp
BorderWidth_NoClamp(size) == Scaled(size, 15)

\* max(1, size * 0.015)
BorderWidth(size) == Max(1000, Scaled(size, 15))
\* max(2, size * 0.055)
ChevronWidth(size) == Max(2000, Scaled(size, 55))
\* x, y, w, h of the prompt symbol
ChevronX(size) == Scaled(size, 250)
ChevronY(size) == Scaled(size, 380)
ChevronW(size) == Scaled(size, 180)
ChevronH(size) == Scaled(size, 240)
\* MoveToPoint(x, y + h); AddLineToPoint(x + w, y + h/2); AddLineToPoint(x, y)
ChevronPoints(size) ==
    << <<ChevronX(size), ChevronY(size) + ChevronH(size)>>,
       <<ChevronX(size) + ChevronW(size), ChevronY(size) + ChevronH(size) \div 2>>,
       <<ChevronX(size), ChevronY(size)>> >>
CursorX(size) == Scaled(size, 500)
CursorY(size) == Scaled(size, 380)
CursorW(size) == Scaled(size, 220)
\* the cursor height with min written for max
CursorH_Min(size) == IF 2000 <= Scaled(size, 45) THEN 2000 ELSE Scaled(size, 45)

\* max(2, size * 0.045)
CursorH(size) == Max(2000, Scaled(size, 45))

\* what the drawing program puts on the canvas for one size
Render(size) ==
    [size |-> size,
     corner |-> Scaled(size, 180),
     inset |-> Scaled(size, 80),
     side |-> Scaled(size, 840),
     borderWidth |-> BorderWidth(size),
     chevronWidth |-> ChevronWidth(size),
     chevron |-> ChevronPoints(size),
     cursor |-> [x |-> CursorX(size), y |-> CursorY(size),
                 w |-> CursorW(size), h |-> CursorH(size)]]

NoCtx == Render(0)

(* ---- initial state ------------------------------------------------------- *)
\* the iconset directory is reused: any few of the paths may already exist
Init ==
    /\ pc = "draw"
    /\ i = 1
    /\ j = 1
    /\ \E pre \in SUBSET Paths :
          /\ Cardinality(pre) <= MaxPre
          /\ files = [p \in Paths |-> IF p \in pre THEN Stale ELSE Absent]
    /\ written = {}
    /\ log = <<>>
    /\ out = <<>>
    /\ result = NoResult
    /\ exitCode = Pending
    /\ ctx = NoCtx

(* ---- size loop ----------------------------------------------------------- *)
\* the drawing child started without waiting for it (Popen for run)
StartDraw_NoWait ==
    /\ pc = "draw"
    /\ log' = Append(log, Invocation("draw", sizes[i], Pending))
    /\ i' = i + 1
    /\ pc' = IF i = Len(sizes) THEN "copy" ELSE "draw"
    /\ UNCHANGED <<j, files, written, out, result, exitCode, ctx>>

\* subprocess.run(["python3", "-c", script], ...) starts the child and blocks
StartDraw ==
    /\ pc = "draw"
    /\ log' = Append(log, Invocation("draw", sizes[i], Pending))
    /\ pc' = "wait_draw"
    /\ UNCHANGED <<i, j, files, written, out, result, exitCode, ctx>>

\* check=True: CalledProcessError is not caught, the script dies with status 1
Raise ==
    /\ pc' = "aborted"
    /\ exitCode' = 1

\* next iteration of "for size in sizes", or on to the copy loop
NextSize ==
    /\ i' = i + 1
    /\ pc' = IF i = Len(sizes) THEN "copy" ELSE "draw"
    /\ UNCHANGED exitCode

\* the child ran to its last line and CGImageDestinationFinalize wrote the PNG
DrawOk ==
    /\ pc = "wait_draw"
    /\ ctx' = Render(sizes[i])
    /\ files' = [files EXCEPT ![PngPath(sizes[i])] = sizes[i]]
    /\ written' = written \cup {PngPath(sizes[i])}
    /\ out' = Append(out, CreatedLine(PngPath(sizes[i])))
    /\ log' = Exited(0)
    /\ NextSize
    /\ UNCHANGED <<j, result>>

\* CGImageDestinationFinalize returned False: its value is dropped, the child
\* still prints its line and exits with status 0
DrawNotSaved ==
    /\ pc = "wait_draw"
    /\ ctx' = Render(sizes[i])
    /\ out' = Append(out, CreatedLine(PngPath(sizes[i])))
    /\ log' = Exited(0)
    /\ NextSize
    /\ UNCHANGED <<j, files, written, result>>

\* the drawing child's status left unchecked (check=True dropped)
DrawCrash_Unchecked ==
    /\ pc = "wait_draw"
    /\ log' = Exited(1)
    /\ NextSize
    /\ UNCHANGED <<j, files, written, out, result, ctx>>

\* the child died on an exception (import Quartz, a drawing call): status 1
DrawCrash ==
    /\ pc = "wait_draw"
    /\ log' = Exited(1)
    /\ Raise
    /\ UNCHANGED <<i, j, files, written, out, result, ctx>>

(* ---- copy loop ----------------------------------------------------------- *)
\* next iteration of "for size in [16, 32, 128, 256, 512]", or on to iconutil
NextCopy ==
    /\ j' = j + 1
    /\ pc' = IF j = Len(copySizes) THEN "convert" ELSE "copy"
    /\ UNCHANGED exitCode

\* a missing source treated as an error
CopySkip_Raises ==
    /\ pc = "copy"
    /\ ~Exists(CopySrc(copySizes[j]))
    /\ Raise
    /\ UNCHANGED <<i, j, files, written, log, out, result, ctx>>

\* if os.path.exists(src) is false: nothing is done for this slot
CopySkip ==
    /\ pc = "copy"
    /\ ~Exists(CopySrc(copySizes[j]))
    /\ NextCopy
    /\ UNCHANGED <<i, files, written, log, out, result, ctx>>

\* subprocess.run(["cp", src, dst], ...) starts cp and blocks
StartCp ==
    /\ pc = "copy"
    /\ Exists(CopySrc(copySizes[j]))
    /\ log' = Append(log, Invocation("cp", copySizes[j], Pending))
    /\ pc' = "wait_cp"
    /\ UNCHANGED <<i, j, files, written, out, result, exitCode, ctx>>

\* cp exited 0: dst holds the bytes of src; print(f"Created {dst}")
CpOk ==
    /\ pc = "wait_cp"
    /\ files' = [files EXCEPT ![CopyDst(copySizes[j])] = files[CopySrc(copySizes[j])]]
    /\ written' = written \cup {CopyDst(copySizes[j])}
    /\ out' = Append(out, CreatedLine(CopyDst(copySizes[j])))
    /\ log' = Exited(0)
    /\ NextCopy
    /\ UNCHANGED <<i, result, ctx>>

\* the status of cp left unchecked (check=True dropped)
CpFail_Unchecked ==
    /\ pc = "wait_cp"
    /\ log' = Exited(1)
    /\ NextCopy
    /\ UNCHANGED <<i, files, written, out, result, ctx>>

\* cp exited non-zero: check=True raises
CpFail ==
    /\ pc = "wait_cp"
    /\ log' = Exited(1)
    /\ Raise
    /\ UNCHANGED <<i, j, files, written, out, result, ctx>>

(* ---- conversion and status ----------------------------------------------- *)
\* subprocess.run(["iconutil", ...], capture_output=True, text=True) starts
StartIconutil ==
    /\ pc = "convert"
    /\ log' = Append(log, Invocation("iconutil", 0, Pending))
    /\ pc' = "wait_iconutil"
    /\ UNCHANGED <<i, j, files, written, out, result, exitCode, ctx>>

\* iconutil exits; no check=True, the CompletedProcess is kept in result
IconutilExit ==
    /\ pc = "wait_iconutil"
    /\ \E rc \in ExitCodes, err \in StderrTexts :
          /\ result' = [returncode |-> rc, stderr |-> err]
          /\ log' = Exited(rc)
          /\ files' = IF rc = 0 THEN [files EXCEPT ![IcnsPath] = IcnsBytes] ELSE files
          /\ written' = IF rc = 0 THEN written \cup {IcnsPath} ELSE written
    /\ pc' = "report"
    /\ UNCHANGED <<i, j, out, exitCode, ctx>>

\* the conversion's failure escalated instead of printed
StatusPrint_Raises ==
    /\ pc = "report"
    /\ IF result.returncode = 0
          THEN /\ out' = out \o <<BannerLine, HintLine>>
               /\ pc' = "done"
               /\ exitCode' = 0
          ELSE /\ out' = out
               /\ Raise
    /\ UNCHANGED <<i, j, files, written, log, result, ctx>>

\* if result.returncode == 0: banner and hint, else: print(f"Error: {stderr}")
StatusPrint ==
    /\ pc = "report"
    /\ out' = IF result.returncode = 0
                 THEN out \o <<BannerLine, HintLine>>
                 ELSE Append(out, ErrorLine(result.stderr))
    /\ pc' = "done"
    /\ exitCode' = 0
    /\ UNCHANGED <<i, j, files, written, log, result, ctx>>

Next ==
    \/ StartDraw
    \/ DrawOk
    \/ DrawNotSaved
    \/ DrawCrash
    \/ CopySkip
    \/ StartCp
    \/ CpOk
    \/ CpFail
    \/ StartIconutil
    \/ IconutilExit
    \/ StatusPrint

Spec == Init /\ [][Next]_vars

(* ---- the drawing program on its own -------------------------------------- *)
InitDraw ==
    /\ pc = "child"
    /\ i = 1
    /\ j = 1
    /\ files = [p \in Paths |-> Absent]
    /\ written = {}
    /\ log = <<>>
    /\ out = <<>>
    /\ result = NoResult
    /\ exitCode = Pending
    /\ ctx = NoCtx

\* one run of the inline program with size = s
DrawIcon ==
    /\ pc = "child"
    /\ \E s \in 1..MaxSize : ctx' = Render(s)
    /\ pc' = "drawn"
    /\ UNCHANGED <<i, j, files, written, log, out, result, exitCode>>

NextDraw == DrawIcon

SpecDraw == InitDraw /\ [][NextDraw]_vars

TypeOK ==
    /\ pc \in {"draw", "wait_draw", "copy", "wait_cp", "convert",
               "wait_iconutil", "report", "done", "aborted", "child", "drawn"}
    /\ i \in 1..(Len(sizes) + 1)
    /\ j \in 1..(Len(copySizes) + 1)
    /\ written \subseteq Paths
    /\ exitCode \in {Pending, 0, 1}

(* ---- vocabulary of the properties ---------------------------------------- *)
Terminal == pc \in {"done", "aborted"}
CopyDone == pc \in {"convert", "wait_iconutil", "report", "done"}

\* children that have been started and have not exited
Running == {k \in DOMAIN log : log[k].rc = Pending}
Failed(k) == log[k].rc \notin {0, Pending}
Invoked(kind, arg) == \E k \in DOMAIN log : log[k].kind = kind /\ log[k].arg = arg
Printed(line) == \E k \in DOMAIN out : out[k] = line
ErrorPrinted == \E k \in DOMAIN out : out[k].t = "Error"

\* every child so far exited 0 and every drawing child that exited saved its PNG
NoFailures ==
    \A k \in DOMAIN log :
        /\ ~Failed(k)
        /\ (log[k].kind = "draw" /\ log[k].rc = 0) => PngPath(log[k].arg) \in written

\* the invocations of a run without failures, in order
Expected ==
    [k \in 1..(Len(sizes) + Len(copySizes) + 1) |->
        IF k <= Len(sizes) THEN <<"draw", sizes[k]>>
        ELSE IF k <= Len(sizes) + Len(copySizes) THEN <<"cp", copySizes[k - Len(sizes)]>>
        ELSE <<"iconutil", 0>>]

(* ---- C1 ------------------------------------------------------------------ *)
\* C1: when the run is over and every drawing child, every cp and iconutil have
\* exited 0, this run has written exactly the 7 base PNGs (each of its own pixel
\* size), exactly the 5 @2x PNGs and /tmp/Term.icns, and the banner is printed.
C1_EndToEnd ==
    (pc = "done" /\ \A k \in DOMAIN log : log[k].rc = 0) =>
        /\ written = Paths
        /\ \A s \in SizeSet : files[PngPath(s)] = s
        /\ \A s \in CopySet : Exists(CopyDst(s))
        /\ files[IcnsPath] = IcnsBytes
        /\ Printed(BannerLine)

(* ---- C2 ------------------------------------------------------------------ *)
\* C2: once the copy loop is over, every @2x file exists and holds the same
\* bytes as the plain file of twice its size, whatever the directory held before.
C2_ByteIdentical ==
    CopyDone =>
        \A s \in CopySet :
            /\ Exists(CopyDst(s))
            /\ files[CopyDst(s)] = files[CopySrc(s)]

(* ---- C3 ------------------------------------------------------------------ *)
\* C3: a drawing child that exits non-zero is the last child of the run: the
\* script is aborted with a failure status, no later size is drawn, no cp and no
\* iconutil is invoked, and neither the banner nor the Error line is printed.
C3_DrawFailureAborts ==
    \A k \in DOMAIN log :
        (log[k].kind = "draw" /\ Failed(k)) =>
            /\ k = Len(log)
            /\ pc = "aborted"
            /\ exitCode = 1
            /\ \A m \in DOMAIN log : log[m].kind = "draw" /\ log[m].arg <= log[k].arg
            /\ ~Printed(BannerLine)
            /\ ~Printed(HintLine)
            /\ ~ErrorPrinted

\* the drawing child for 64 has failed after 16 and 32 were drawn
C3_Witness ==
    /\ pc = "aborted"
    /\ Len(log) = 3
    /\ log[3] = Invocation("draw", 64, 1)

(* ---- C4 ------------------------------------------------------------------ *)
\* C4: a drawing child that ends without having written its PNG is the last
\* child of the run: the script is aborted with a non-zero status, so no later
\* size is drawn and the copy and conversion steps are not reached.
C4_EncodeFailureAborts ==
    \A k \in DOMAIN log :
        (log[k].kind = "draw" /\ log[k].rc # Pending /\ PngPath(log[k].arg) \notin written) =>
            /\ k = Len(log)
            /\ pc = "aborted"
            /\ exitCode = 1

(* ---- C5 ------------------------------------------------------------------ *)
\* the state after a failed conversion has been reported
C5_Reported ==
    (pc = "done" /\ result.returncode # 0) =>
        /\ exitCode = 0
        /\ out[Len(out)] = ErrorLine(result.stderr)
        /\ ~Printed(BannerLine)
        /\ ~Printed(HintLine)
        /\ Cardinality({k \in DOMAIN log : log[k].kind = "iconutil"}) = 1
        /\ \A p \in written : Exists(p)

\* the steps that take a failed conversion to the end of the script
C5_Step ==
    /\ (pc = "wait_iconutil" /\ result'.returncode # 0) =>
          /\ files' = files
          /\ pc' = "report"
          /\ Len(log') = Len(log)
    /\ (pc = "report" /\ result.returncode # 0) =>
          /\ files' = files
          /\ log' = log
          /\ out' = Append(out, ErrorLine(result.stderr))
          /\ pc' = "done"
          /\ exitCode' = 0

\* C5: when iconutil exits non-zero the script prints the captured stderr text,
\* prints neither the banner nor the install hint, ends normally with status 0,
\* invokes iconutil only once and removes no file.
C5_ConversionFailureReported == []C5_Reported /\ [][C5_Step]_vars

\* a failed conversion with a non-empty stderr text has been reported
C5_Witness ==
    /\ pc = "done"
    /\ result.returncode = 1
    /\ result.stderr # ""
    /\ written # {}

(* ---- C6 ------------------------------------------------------------------ *)
\* copy slot k has been passed and its source file is absent (the copy loop and
\* the conversion write no plain PNG, so it was absent when the slot was reached)
SourceMissing(k) == pc \notin {"draw", "wait_draw"} /\ k < j /\ ~Exists(CopySrc(copySizes[k]))

\* nothing was done for the slot
NothingCopied(k) ==
    /\ ~Invoked("cp", copySizes[k])
    /\ ~Printed(CreatedLine(CopyDst(copySizes[k])))
    /\ CopyDst(copySizes[k]) \notin written

\* the step taken at a slot whose source is absent goes on to the next slot, or
\* to the conversion after the last slot, and does nothing else
C6_Step ==
    (pc = "copy" /\ ~Exists(CopySrc(copySizes[j]))) =>
        /\ j' = j + 1
        /\ pc' = (IF j = Len(copySizes) THEN "convert" ELSE "copy")
        /\ UNCHANGED <<files, written, log, out, exitCode>>

C6_Amended ==
    \A k \in DOMAIN copySizes :
        SourceMissing(k) =>
            /\ NothingCopied(k)
            /\ pc = "aborted" =>
                  /\ log[Len(log)].kind = "cp"
                  /\ Failed(Len(log))
                  /\ \E m \in DOMAIN copySizes : m > k /\ copySizes[m] = log[Len(log)].arg
            /\ pc = "done" => (Invoked("iconutil", 0) /\ exitCode = 0)

C7_Original ==
    [][/\ pc = "wait_draw" => pc' \in {"draw", "copy"}
       /\ pc = "wait_cp" => pc' \in {"copy", "convert"}]_vars

\* C7 (amended): every child's exit status is acted upon.  A non-zero exit of a
\* drawing child or of cp aborts the run at once with status 1 and is the last
\* invocation; a non-zero exit of iconutil is the only one the script handles
\* itself: it goes on to the status print and ends with status 0.
C7_ExitStatusActedUpon ==
    /\ \A k \in DOMAIN log :
          /\ (log[k].kind \in {"draw", "cp"} /\ Failed(k)) =>
                (k = Len(log) /\ pc = "aborted" /\ exitCode = 1)
          /\ (log[k].kind = "iconutil" /\ Failed(k)) =>
                /\ pc \in {"report", "done"}
                /\ result.returncode = log[k].rc
                /\ pc = "done" => (exitCode = 0 /\ ErrorPrinted)
    /\ pc = "aborted" => (Len(log) > 0 /\ Failed(Len(log)) /\ log[Len(log)].kind \in {"draw", "cp"})

\* cp for the third slot has exited non-zero after two copies
C7_Witness ==
    /\ pc = "aborted"
    /\ log[Len(log)] = Invocation("cp", 128, 1)
    /\ Invoked("cp", 16)
    /\ Invoked("cp", 32)

(* ---- C8 ------------------------------------------------------------------ *)
\* C8: at most one child runs at a time and it is the one started last; no
\* child is invoked twice; every cp comes after all seven drawing children have
\* exited and iconutil after every cp; the status is printed only after iconutil
\* has exited; and as long as nothing fails the invocations are a prefix of
\* draw(16..1024), cp(16, 32, 128, 256, 512), iconutil, all of it when done.
C8_Sequential ==
    /\ Cardinality(Running) <= 1
    /\ Running \subseteq {Len(log)}
    /\ \A k, m \in DOMAIN log :
          (log[k].kind = log[m].kind /\ log[k].arg = log[m].arg) => k = m
    /\ \A k \in DOMAIN log :
          log[k].kind = "cp" =>
              \A s \in SizeSet : \E m \in 1..(k - 1) : log[m] = Invocation("draw", s, 0)
    /\ \A k \in DOMAIN log :
          log[k].kind = "iconutil" => \A m \in (k + 1)..Len(log) : FALSE
    /\ (Printed(BannerLine) \/ Printed(HintLine) \/ ErrorPrinted) =>
          (pc = "done" /\ Invoked("iconutil", 0) /\ Running = {})
    /\ NoFailures =>
          /\ Len(log) <= Len(Expected)
          /\ \A k \in DOMAIN log : <<log[k].kind, log[k].arg>> = Expected[k]
          /\ pc = "done" => Len(log) = Len(Expected)

\* a run without failures has made all thirteen invocations
C8_Witness ==
    /\ pc = "done"
    /\ NoFailures
    /\ Len(log) = 13
    /\ Printed(BannerLine)

(* ---- C9 ------------------------------------------------------------------ *)
\* C9 as stated: for every size of the list the border stroke is 1 to 2 pixels
\* wide.
C9_Original ==
    (pc = "drawn" /\ ctx.size \in SizeSet) =>
        (ctx.borderWidth >= 1000 /\ ctx.borderWidth <= 2000)

\* C9 (amended): for every size of the list the border stroke, max(1, size *
\* 0.015), is at least 1 pixel wide; it is 1 to 2 pixels wide for the sizes up
\* to 128 only, and 3.84, 7.68 and 15.36 pixels wide for 256, 512 and 1024.
C9_BorderWidth ==
    (pc = "drawn" /\ ctx.size \in SizeSet) =>
        /\ ctx.borderWidth >= 1000
        /\ ctx.size <= 128 => ctx.borderWidth <= 2000
        /\ ctx.size = 256 => ctx.borderWidth = 3840
        /\ ctx.size = 512 => ctx.borderWidth = 7680
        /\ ctx.size = 1024 => ctx.borderWidth = 15360

\* the largest icon has been drawn
C9_Witness == pc = "drawn" /\ ctx.size = 1024

(* ---- C10 ----------------------------------------------------------------- *)
Xs == {ctx.chevron[k][1] : k \in 1..3}
Ys == {ctx.chevron[k][2] : k \in 1..3}

\* v is the larger of a and b
IsMax(v, a, b) == v >= a /\ v >= b /\ v \in {a, b}

\* C10: the measurements follow from the size with the stated clamps: cursor
\* width 22% of size, cursor height the larger of 2 and 4.5% of size, border
\* stroke the larger of 1 and 1.5% of size, chevron stroke the larger of 2 and
\* 5.5% of size; size 100 gives 22, 4.5 and 1.5; and for every size of the list
\* the chevron spans 25% to 43% of size across and 38% to 62% of size upwards.
C10_Proportions ==
    pc = "drawn" =>
        /\ ctx.cursor.w * 100 = ctx.size * 22000
        /\ IsMax(ctx.cursor.h * 1000, 2000000, ctx.size * 45000)
        /\ IsMax(ctx.borderWidth * 1000, 1000000, ctx.size * 15000)
        /\ IsMax(ctx.chevronWidth * 1000, 2000000, ctx.size * 55000)
        /\ ctx.size = 100 =>
              /\ ctx.cursor.w = 22000
              /\ ctx.cursor.h = 4500
              /\ ctx.borderWidth = 1500
        /\ ctx.size \in SizeSet =>
              /\ \A x \in Xs : 100 * x >= 25000 * ctx.size /\ 100 * x <= 43000 * ctx.size
              /\ \E x \in Xs : 100 * x = 25000 * ctx.size
              /\ \E x \in Xs : 100 * x = 43000 * ctx.size
              /\ \A y \in Ys : 100 * y >= 38000 * ctx.size /\ 100 * y <= 62000 * ctx.size
              /\ \E y \in Ys : 100 * y = 38000 * ctx.size
              /\ \E y \in Ys : 100 * y = 62000 * ctx.size

\* the program has been run with size = 100
C10_Witness == pc = "drawn" /\ ctx.size = 100

====
